---- MODULE Spec2Model ----
(***************************************************************************)
(* A model of pyo3-log (src/src/lib.rs): the filter table, the             *)
(* copy-on-write cache tree behind an atomically swappable root, the log   *)
(* call of `impl Log for Logger` and the reset handle.                     *)
(*                                                                         *)
(* Strings are sequences of one-character strings, so that `find("::")`,   *)
(* `split("::")` and `replace("::", ".")` are computed as the code         *)
(* computes them.                                                          *)
(***************************************************************************)
EXTENDS Integers, Sequences, FiniteSets, TLC

VARIABLES
    top_filter,   \* Logger.top_filter
    filters,      \* Logger.filters: a map from target strings to filters
    caching,      \* Logger.caching
    query,        \* the last target handed to filter_for (filter-table runs)
    resolved,     \* what filter_for answered for it
    root,         \* Logger.cache: the ArcSwap's current Arc<CacheNode>
    hostLevel,    \* the host's level: that of the root logger, which all inherit
    gil,          \* the thread holding the host's global lock
    call,         \* per thread: the locals of its log call and its position
    obs,          \* per thread: what its log call in progress has done so far
    last,         \* the operation that has just returned, and what it did
    boxed_logger, \* the log crate's global logger: the Logger installed, if any
    max_level,    \* the log crate's global maximum level
    install_result, \* what the last install() of the logger built returned
    heap,         \* the CacheNodes allocated, by address (the allocation runs)
    arc_swap,     \* the address the ArcSwap holds (the allocation runs)
    guard,        \* per thread: the root it has loaded, and the tree it saw
    main          \* the #[pyfunction] that spawns a logging thread and joins it

vars == <<top_filter, filters, caching, query, resolved, root, hostLevel, gil, call,
          obs, last, boxed_logger, max_level, install_result, heap, arc_swap, guard,
          main>>

----------------------------------------------------------------------------
(* log::LevelFilter and log::Level, ordered as the log crate orders them.  *)

Off == 0
Error == 1
Warn == 2
Info == 3
Debug == 4
Trace == 5

Levels == {Error, Warn, Info, Debug, Trace}
LevelFilters == {Off} \cup Levels

\* LevelFilter::max()
LevelFilterMax == Trace

\* Level::to_level_filter
to_level_filter(l) == l

\* Option<T>: None, and Some(x).
None == <<>>
Some(x) == <<x>>
Unwrap(o) == o[1]

\* Option<usize>::None of str::find.
NotFound == -1

----------------------------------------------------------------------------
(* Strings.                                                                *)

\* The longest target the filter-table runs resolve.
MaxLen == 5

\* The characters targets are made of in the filter-table runs.
Alphabet == {"x", "a", ":"}

Str_x == <<"x">>
Str_xa == <<"x", ":", ":", "a">>
Str_xab == <<"x", ":", ":", "a", "b">>

\* s[from..] as Rust slices it (from is 0-based).
SliceFrom(s, from) == SubSeq(s, from + 1, Len(s))

\* s[..to] as Rust slices it.
SliceTo(s, to) == SubSeq(s, 1, to)

\* str::find("::"): the 0-based index of the first "::" in s, or NotFound.
Find(s) ==
    LET hits == {i \in 1..(Len(s) - 1) : s[i] = ":" /\ s[i + 1] = ":"}
    IN IF hits = {} THEN NotFound
       ELSE (CHOOSE i \in hits : \A j \in hits : i <= j) - 1

RECURSIVE Split(_)
\* str::split("::"): the pieces between successive non-overlapping "::".
Split(s) ==
    LET e == Find(s)
    IN IF e = NotFound THEN <<s>>
       ELSE <<SliceTo(s, e)>> \o Split(SliceFrom(s, e + 2))

RECURSIVE Replace(_)
\* str::replace("::", "."): every non-overlapping "::" becomes ".".
Replace(s) ==
    LET e == Find(s)
    IN IF e = NotFound THEN s
       ELSE SliceTo(s, e) \o <<".">> \o Replace(SliceFrom(s, e + 2))

----------------------------------------------------------------------------
(* The filter table.                                                       *)

EmptyMap == [k \in {} |-> Off]

\* HashMap::insert
MapInsert(m, k, v) == [x \in (DOMAIN m) \cup {k} |-> IF x = k THEN v ELSE m[x]]

RECURSIVE filter_for_loop(_, _, _)
\* The while loop of filter_for: one pass per "::" found from `start` on.
filter_for_loop(target, start, filter) ==
    LET end == Find(SliceFrom(target, start))
    IN IF end = NotFound THEN filter
       ELSE LET key == SliceTo(target, start + end)
                f == IF key \in DOMAIN filters THEN filters[key] ELSE filter
            IN filter_for_loop(target, start + end + 2, f)

\* A filter_for that matches every string prefix, on a segment boundary or not.
filter_for_anyprefix(target) ==
    LET ks == {k \in DOMAIN filters :
                  Len(k) <= Len(target) /\ SliceTo(target, Len(k)) = k}
    IN IF ks = {} THEN top_filter
       ELSE filters[CHOOSE k \in ks : \A j \in ks : Len(j) <= Len(k)]

\* Logger::filter_for
filter_for(target) ==
    LET filter == filter_for_loop(target, 0, top_filter)
    IN IF target \in DOMAIN filters THEN filters[target] ELSE filter

----------------------------------------------------------------------------
(* The cache tree.                                                         *)

\* CacheNode::default()
EmptyNode == [local |-> None, children |-> EmptyMap]

\* CacheEntry { filter, logger }
CacheEntry(filter, logger) == [filter |-> filter, logger |-> logger]

\* A store_to_cache_recursive that sets the entry on the node it is given
\* and never descends along the path.
store_to_cache_shallow(node, path, entry) ==
    [children |-> node.children, local |-> Some(entry)]

RECURSIVE store_to_cache_recursive(_, _, _)
\* CacheNode::store_to_cache_recursive: a copy of `node` in which the node at
\* `path` holds `entry`; nodes along `path` are created when missing.
store_to_cache_recursive(node, path, entry) ==
    LET me == [children |-> node.children, local |-> node.local]
    IN IF path # <<>>
       THEN LET segment == Head(path)
                child == IF segment \in DOMAIN me.children
                         THEN me.children[segment] ELSE EmptyNode
            IN [me EXCEPT !.children =
                   MapInsert(me.children, segment,
                             store_to_cache_recursive(child, Tail(path), entry))]
       ELSE [me EXCEPT !.local = Some(entry)]

RECURSIVE lookup_walk(_, _)
\* The for loop of lookup: one child per segment, None when one is missing.
lookup_walk(node, segments) ==
    IF segments = <<>> THEN Some(node)
    ELSE IF Head(segments) \in DOMAIN node.children
         THEN lookup_walk(node.children[Head(segments)], Tail(segments))
         ELSE None

\* A lookup that answers the deepest node found along the path.
lookup_nearest(target) ==
    LET RECURSIVE walk(_, _)
        walk(node, segments) ==
            IF segments = <<>> THEN Some(node)
            ELSE IF Head(segments) \in DOMAIN node.children
                 THEN walk(node.children[Head(segments)], Tail(segments))
                 ELSE Some(node)
    IN IF caching = "Nothing" THEN None ELSE walk(root.node, Split(target))

\* Logger::lookup
lookup(target) ==
    IF caching = "Nothing" THEN None ELSE lookup_walk(root.node, Split(target))

\* node.local of an Option<Arc<CacheNode>>: the entry, or None.
LocalOf(cache) == IF cache = None THEN None ELSE Unwrap(cache).local

\* The entry a walk from `node` along `target` finds, or None.
EntryAt(node, target) == LocalOf(lookup_walk(node, Split(target)))

\* An enabled_inner that lets a cached filter stand in for the filter table.
enabled_inner_cache_first(level, target, cache) ==
    IF LocalOf(cache) # None
    THEN level <= Unwrap(LocalOf(cache)).filter
    ELSE level <= filter_for(target)

\* An enabled_inner that leaves the cached filter out.
enabled_inner_nocache(level, target, cache) == level <= filter_for(target)

\* Logger::enabled_inner
enabled_inner(level, target, cache) ==
    LET cache_filter == IF LocalOf(cache) # None THEN Unwrap(LocalOf(cache)).filter
                        ELSE LevelFilterMax
    IN level <= cache_filter /\ level <= filter_for(target)

\* Log::enabled
enabled(level, target) == enabled_inner(level, target, lookup(target))

----------------------------------------------------------------------------
(* The host: Python's logging module.                                      *)

\* map_level
map_level(level) ==
    CASE level = Error -> 40
      [] level = Warn -> 30
      [] level = Info -> 20
      [] level = Debug -> 10
      [] level = Trace -> 5

\* logging.getLogger(name): the logger object of that name, always the same one.
getLogger(name) == name

\* Logger.isEnabledFor(level) of the logger named `logger`: its effective
\* level is the root logger's.
isEnabledFor(logger, pylevel) == pylevel >= hostLevel

\* A level filter that agrees with what the logger answers now, level by level.
Reflects(filter, logger) ==
    \A s \in Levels : (s <= filter) <=> isEnabledFor(logger, map_level(s))

\* A level filter that cuts a level the logger accepts now.
Suppresses(filter, logger) ==
    \E s \in Levels : s > filter /\ isEnabledFor(logger, map_level(s))

\* The levels extract_max_level probes, in its order.
ProbeOrder == <<Trace, Debug, Info, Warn, Error>>

----------------------------------------------------------------------------
(* Threads and the log call.                                               *)

Threads == {"t1", "t2"}
NoThread == "none"

\* The targets and levels the threads log with: the first thread logs for
\* a module and its submodule, the second for the submodule.
LogTargets == {Str_x, Str_xa}
LogLevels == {Error, Debug}
Records(t) ==
    IF t = "t1" THEN LogTargets \X LogLevels ELSE {<<Str_xa, Error>>}

\* The levels the host is set to (logging.DEBUG, logging.WARNING).
HostLevels == {10, 30}

Cachings == {"Nothing", "Loggers", "LoggersAndLevels"}

\* The filter table the logger is installed with:
\* .filter(Warn).filter_target("x::a", Trace)
InstalledTop == Warn
InstalledFilters == MapInsert(EmptyMap, Str_xa, Trace)

\* No #[pyfunction] of the extension is running.
NoMain == [pc |-> "none", releases |-> FALSE]

\* A thread outside log(), its locals dead.
IdleCall ==
    [pc |-> "idle", target |-> <<>>, level |-> Error, cache |-> None,
     logger |-> None, cached |-> FALSE, filter |-> Off, probe |-> 0,
     orig |-> None]

\* What a log call has done so far.
NewObs ==
    [outcome |-> "none", target |-> <<>>, level |-> Error, hit |-> FALSE,
     entry |-> None,
     gilTaken |-> 0, lookups |-> 0, checks |-> 0, answer |-> "none",
     extracts |-> 0, probes |-> 0, probeErr |-> FALSE, records |-> 0, dispatches |-> 0,
     cas |-> "none", staleHost |-> FALSE, staleLoad |-> FALSE,
     staleFilter |-> FALSE, probedStale |-> "no", postReset |-> FALSE, before |-> None,
     dropped |-> {}]

\* The positions at which a thread is about to call into the host. Inside
\* the call the interpreter may switch to another Python thread for a while
\* (HostSetLevel); the with_gil closure has the lock again when the call
\* returns, and keeps it until the closure returns.
HostPcs == {"get_logger", "is_enabled", "make_record", "handle", "probe"}

\* The identity of a newly allocated root Arc<CacheNode>: it differs from that
\* of every root a thread still holds (the Guard of a load keeps its Arc
\* alive, so its address is not given out again). Roots no thread holds
\* can no longer be compared with anything, so their identities are free.
FreshId ==
    LET held == {Unwrap(call[t].orig).id : t \in {u \in Threads : call[u].orig # None}}
    IN CHOOSE i \in 0..Cardinality(Threads) :
           i \notin held /\ \A j \in 0..(i - 1) : j \in held

\* A compare_and_swap that stores whatever the current root is.
compare_and_swap_blind(current, orig, new) == new

\* ArcSwap::compare_and_swap: `new` when the root is still the Arc `orig`.
compare_and_swap(current, orig, new) ==
    IF current.id = orig.id THEN new ELSE current

\* A log_inner that returns the logger although it was the cached one.
cache_logger_although_cached(cached) == caching # "Nothing"

\* A log_inner that returns the logger whatever the caching mode.
cache_logger_any_mode(cached) == ~cached

\* The end of log_inner: whether it returns a logger to be cached.
cache_logger(cached) == ~cached /\ caching # "Nothing"

\* No operation has just returned.
NoEvent == [kind |-> "none", t |-> NoThread, o |-> NewObs]

\* The end of log(): the with_gil closure returns and the lock is given up.
EndCall(t, o) ==
    /\ call' = [call EXCEPT ![t] = IdleCall]
    /\ obs' = [obs EXCEPT ![t] = NewObs]
    /\ last' = [kind |-> "log", t |-> t, o |-> o]
    /\ gil' = NoThread

\* Err(e) => e.print(py)
FailCall(t) == EndCall(t, [obs[t] EXCEPT !.outcome = "error"])

\* A log() that caches the logger it asked for in every caching mode.
AfterLogInner_store_always(t, c, o) ==
    IF ~c.cached
    THEN /\ call' = [call EXCEPT ![t] =
                        [c EXCEPT !.pc = "store_load", !.filter = LevelFilterMax]]
         /\ obs' = [obs EXCEPT ![t] = o]
         /\ last' = NoEvent
         /\ UNCHANGED gil
    ELSE EndCall(t, [o EXCEPT !.outcome = "done"])

\* What follows log_inner's Ok: the match of log() on the logger to cache.
AfterLogInner(t, c, o) ==
    IF cache_logger(c.cached)
    THEN CASE caching = "Nothing" ->
                  EndCall(t, [o EXCEPT !.outcome = "panic"])
           [] caching = "Loggers" ->
                  /\ call' = [call EXCEPT ![t] =
                                 [c EXCEPT !.pc = "store_load",
                                           !.filter = LevelFilterMax]]
                  /\ obs' = [obs EXCEPT ![t] = o]
                  /\ last' = NoEvent
                  /\ UNCHANGED gil
           [] caching = "LoggersAndLevels" ->
                  /\ call' = [call EXCEPT ![t] =
                                 [c EXCEPT !.pc = "probe", !.probe = 1]]
                  /\ obs' = [obs EXCEPT ![t] = [o EXCEPT !.extracts = @ + 1]]
                  /\ last' = NoEvent
                  /\ UNCHANGED gil
    ELSE EndCall(t, [o EXCEPT !.outcome = "done"])

config == <<top_filter, filters, caching, query, resolved,
            boxed_logger, max_level, install_result, heap, arc_swap, guard, main>>

\* A log that goes to with_gil without the pre-check.
Log_unchecked(t, target, level) ==
    /\ call[t].pc = "idle"
    /\ LET cache == lookup(target)
           o == [NewObs EXCEPT !.target = target, !.level = level,
                               !.hit = LocalOf(cache) # None,
                               !.entry = LocalOf(cache),
                               !.postReset = target \in last.o.dropped]
       IN /\ call' = [call EXCEPT ![t] =
                         [IdleCall EXCEPT !.pc = "with_gil",
                                          !.target = target,
                                          !.level = level,
                                          !.cache = cache]]
          /\ obs' = [obs EXCEPT ![t] = [o EXCEPT !.outcome = "running"]]
          /\ last' = NoEvent
    /\ UNCHANGED <<config, root, hostLevel, gil>>

\* Log::log up to with_gil: the lookup and the pre-check.
Log(t, target, level) ==
    /\ call[t].pc = "idle"
    /\ LET cache == lookup(target)
           o == [NewObs EXCEPT !.target = target, !.level = level,
                               !.hit = LocalOf(cache) # None,
                               !.entry = LocalOf(cache),
                               !.postReset = target \in last.o.dropped]
       IN IF enabled_inner(level, target, cache)
          THEN /\ call' = [call EXCEPT ![t] =
                              [IdleCall EXCEPT !.pc = "with_gil",
                                               !.target = target,
                                               !.level = level,
                                               !.cache = cache]]
               /\ obs' = [obs EXCEPT ![t] = [o EXCEPT !.outcome = "running"]]
               /\ last' = NoEvent
          ELSE /\ last' = [kind |-> "log", t |-> t,
                           o |-> [o EXCEPT !.outcome = "filtered"]]
               /\ UNCHANGED <<call, obs>>
    /\ UNCHANGED <<config, root, hostLevel, gil>>

\* A with_gil that does not wait for the lock.
WithGil_no_wait(t) ==
    /\ call[t].pc = "with_gil"
    /\ gil' = t
    /\ LET local == LocalOf(call[t].cache)
       IN call' = [call EXCEPT ![t] =
                      IF local # None
                      THEN [@ EXCEPT !.pc = "is_enabled",
                                     !.logger = Unwrap(local).logger,
                                     !.cached = TRUE]
                      ELSE [@ EXCEPT !.pc = "get_logger", !.cached = FALSE]]
    /\ obs' = [obs EXCEPT ![t].gilTaken = @ + 1]
    /\ last' = NoEvent
    /\ UNCHANGED <<config, root, hostLevel>>

\* A with_gil whose log_inner ignores the cached logger and asks the host.
WithGil_nocache(t) ==
    /\ call[t].pc = "with_gil"
    /\ gil = NoThread
    /\ gil' = t
    /\ call' = [call EXCEPT ![t].pc = "get_logger", ![t].cached = FALSE]
    /\ obs' = [obs EXCEPT ![t].gilTaken = @ + 1]
    /\ last' = NoEvent
    /\ UNCHANGED <<config, root, hostLevel>>

\* Python::with_gil, and the start of log_inner: the cached logger, if any.
WithGil(t) ==
    /\ call[t].pc = "with_gil"
    /\ gil = NoThread
    /\ gil' = t
    /\ LET local == LocalOf(call[t].cache)
       IN call' = [call EXCEPT ![t] =
                      IF local # None
                      THEN [@ EXCEPT !.pc = "is_enabled",
                                     !.logger = Unwrap(local).logger,
                                     !.cached = TRUE]
                      ELSE [@ EXCEPT !.pc = "get_logger", !.cached = FALSE]]
    /\ obs' = [obs EXCEPT ![t].gilTaken = @ + 1]
    /\ last' = NoEvent
    /\ UNCHANGED <<config, root, hostLevel>>

\* logging.getLogger(target)
GetLogger(t) ==
    /\ call[t].pc = "get_logger"
    /\ gil = t
    /\ \/ /\ call' = [call EXCEPT ![t].pc = "is_enabled",
                                  ![t].logger = getLogger(Replace(call[t].target))]
          /\ obs' = [obs EXCEPT ![t].lookups = @ + 1]
          /\ last' = NoEvent
          /\ UNCHANGED gil
       \/ FailCall(t)
    /\ UNCHANGED <<config, root, hostLevel>>

\* A log_inner that takes the cached filter for the answer on a cache hit.
IsEnabledFor_trust_cache(t) ==
    /\ call[t].pc = "is_enabled"
    /\ gil = t
    /\ \/ LET ans == IF call[t].cached
                     THEN call[t].level <= Unwrap(LocalOf(call[t].cache)).filter
                     ELSE isEnabledFor(call[t].logger, map_level(call[t].level))
              o == [obs[t] EXCEPT !.checks = @ + 1,
                                  !.answer = IF ans THEN "yes" ELSE "no"]
          IN IF ans
             THEN /\ call' = [call EXCEPT ![t].pc = "make_record"]
                  /\ obs' = [obs EXCEPT ![t] = o]
                  /\ last' = NoEvent
                  /\ UNCHANGED gil
             ELSE AfterLogInner(t, call[t], o)
       \/ FailCall(t)
    /\ UNCHANGED <<config, root, hostLevel>>

\* is_enabled_for(&logger, record.level()) in log_inner
IsEnabledFor(t) ==
    /\ call[t].pc = "is_enabled"
    /\ gil = t
    /\ \/ LET ans == isEnabledFor(call[t].logger, map_level(call[t].level))
              o == [obs[t] EXCEPT !.checks = @ + 1,
                                  !.answer = IF ans THEN "yes" ELSE "no"]
          IN IF ans
             THEN /\ call' = [call EXCEPT ![t].pc = "make_record"]
                  /\ obs' = [obs EXCEPT ![t] = o]
                  /\ last' = NoEvent
                  /\ UNCHANGED gil
             ELSE AfterLogInner(t, call[t], o)
       \/ FailCall(t)
    /\ UNCHANGED <<config, root, hostLevel>>

\* logger.makeRecord(...)
MakeRecord(t) ==
    /\ call[t].pc = "make_record"
    /\ gil = t
    /\ \/ /\ call' = [call EXCEPT ![t].pc = "handle"]
          /\ obs' = [obs EXCEPT ![t].records = @ + 1]
          /\ last' = NoEvent
          /\ UNCHANGED gil
       \/ FailCall(t)
    /\ UNCHANGED <<config, root, hostLevel>>

\* logger.handle(record)
Handle(t) ==
    /\ call[t].pc = "handle"
    /\ gil = t
    /\ \/ AfterLogInner(t, call[t], [obs[t] EXCEPT !.dispatches = @ + 1])
       \/ FailCall(t)
    /\ UNCHANGED <<config, root, hostLevel>>

\* One pass of the loop of extract_max_level, or its failure.
Probe(t) ==
    /\ call[t].pc = "probe"
    /\ gil = t
    /\ \/ LET l == ProbeOrder[call[t].probe]
          IN call' = [call EXCEPT ![t] =
                 IF isEnabledFor(call[t].logger, map_level(l))
                 THEN [@ EXCEPT !.pc = "store_load", !.filter = to_level_filter(l)]
                 ELSE IF call[t].probe = Len(ProbeOrder)
                      THEN [@ EXCEPT !.pc = "store_load", !.filter = Off]
                      ELSE [@ EXCEPT !.probe = @ + 1]]
          /\ obs' = [obs EXCEPT ![t].probes = @ + 1]
       \/ /\ call' = [call EXCEPT ![t].pc = "store_load",
                                  ![t].filter = LevelFilterMax]
          /\ obs' = [obs EXCEPT ![t].probes = @ + 1, ![t].probeErr = TRUE]
    /\ last' = NoEvent
    /\ UNCHANGED <<config, root, hostLevel, gil>>

\* A store_to_cache that runs after the lock is given up.
StoreLoad_unlocked(t) ==
    /\ call[t].pc = "store_load"
    /\ gil = t
    /\ gil' = NoThread
    /\ call' = [call EXCEPT ![t].pc = "store_cas", ![t].orig = Some(root)]
    /\ obs' = [obs EXCEPT ![t].staleLoad = FALSE, ![t].before = Some(root.node)]
    /\ last' = NoEvent
    /\ UNCHANGED <<config, root, hostLevel>>

\* store_to_cache: let orig = self.cache.load()
StoreLoad(t) ==
    /\ call[t].pc = "store_load"
    /\ gil = t
    /\ call' = [call EXCEPT ![t].pc = "store_cas", ![t].orig = Some(root)]
    /\ obs' = [obs EXCEPT ![t].staleLoad = FALSE, ![t].before = Some(root.node)]
    /\ last' = NoEvent
    /\ UNCHANGED <<config, root, hostLevel, gil>>

\* A store_to_cache that loads the root again when its compare_and_swap
\* did not store.
StoreCas_retry(t) ==
    /\ call[t].pc = "store_cas"
    /\ gil = t
    /\ LET entry == CacheEntry(call[t].filter, call[t].logger)
           new == [id |-> FreshId,
                   node |-> store_to_cache_recursive(Unwrap(call[t].orig).node,
                                                     Split(call[t].target), entry)]
       IN /\ root' = compare_and_swap(root, Unwrap(call[t].orig), new)
          /\ IF root' = new
             THEN EndCall(t, [obs[t] EXCEPT !.outcome = "done", !.cas = "won"])
             ELSE /\ call' = [call EXCEPT ![t].pc = "store_load",
                                          ![t].orig = None]
                  /\ obs' = [obs EXCEPT ![t].cas = "lost"]
                  /\ last' = NoEvent
                  /\ UNCHANGED gil
    /\ UNCHANGED <<config, hostLevel>>

\* store_to_cache: the new tree and the compare_and_swap; log() returns.
StoreCas(t) ==
    /\ call[t].pc = "store_cas"
    /\ gil = t
    /\ LET entry == CacheEntry(call[t].filter, call[t].logger)
           new == [id |-> FreshId,
                   node |-> store_to_cache_recursive(Unwrap(call[t].orig).node,
                                                     Split(call[t].target), entry)]
       IN /\ root' = compare_and_swap(root, Unwrap(call[t].orig), new)
          /\ EndCall(t, [obs[t] EXCEPT
                            !.outcome = "done",
                            !.cas = IF root' = new THEN "won" ELSE "lost"])
    /\ UNCHANGED <<config, hostLevel>>

\* A reset that stores a new root with the old entries.
Reset_keep ==
    /\ root' = [id |-> FreshId, node |-> root.node]
    /\ obs' = [t \in Threads |->
                 [obs[t] EXCEPT
                     !.staleHost = @ \/ (call[t].pc # "idle" /\ obs[t].lookups > 0),
                     !.staleLoad = @ \/ call[t].pc = "store_cas"]]
    /\ last' = [kind |-> "reset", t |-> NoThread,
                o |-> [NewObs EXCEPT !.dropped =
                          {p \in LogTargets : LocalOf(lookup(p)) # None}]]
    /\ UNCHANGED <<config, hostLevel, gil, call>>

\* A reset that puts the filter table back to that of Logger::new as well.
Reset_all ==
    /\ root' = [id |-> FreshId, node |-> EmptyNode]
    /\ top_filter' = Debug
    /\ filters' = EmptyMap
    /\ obs' = [t \in Threads |->
                 [obs[t] EXCEPT
                     !.staleHost = @ \/ (call[t].pc # "idle" /\ obs[t].lookups > 0),
                     !.staleLoad = @ \/ call[t].pc = "store_cas"]]
    /\ last' = [kind |-> "reset", t |-> NoThread,
                o |-> [NewObs EXCEPT !.dropped =
                          {p \in LogTargets : LocalOf(lookup(p)) # None},
                                    !.postReset = (last.kind = "reset")]]
    /\ UNCHANGED <<caching, query, resolved, boxed_logger, max_level,
                   install_result, heap, arc_swap, guard, main, hostLevel, gil,
                   call>>

\* ResetHandle::reset
Reset ==
    /\ root' = [id |-> FreshId, node |-> EmptyNode]
    /\ obs' = [t \in Threads |->
                 [obs[t] EXCEPT
                     !.staleHost = @ \/ (call[t].pc # "idle" /\ obs[t].lookups > 0),
                     !.staleFilter = @ \/
                         /\ call[t].pc \in {"store_load", "store_cas"}
                         /\ caching = "LoggersAndLevels"
                         /\ ~obs[t].probeErr
                         /\ obs[t].probedStale = "after"
                         /\ Suppresses(call[t].filter, call[t].logger),
                     !.staleLoad = @ \/ call[t].pc = "store_cas"]]
    /\ last' = [kind |-> "reset", t |-> NoThread,
                o |-> [NewObs EXCEPT !.dropped =
                          {p \in LogTargets : LocalOf(lookup(p)) # None},
                                    !.postReset = (last.kind = "reset")]]
    /\ UNCHANGED <<config, hostLevel, gil, call>>

\* A Python thread reconfigures logging: it takes the lock, sets the level
\* of one logger and gives the lock back.  The interpreter hands the lock
\* over inside a host call only, up to the moment the call returns to Rust:
\* "store_load" is where the last host call of log() has just returned.
HostSetLevel(l) ==
    /\ \/ gil = NoThread
       \/ gil \in Threads /\ call[gil].pc \in HostPcs \cup {"store_load"}
    /\ hostLevel # l
    /\ hostLevel' = l
    /\ obs' = [t \in Threads |->
                 [obs[t] EXCEPT
                     !.probedStale =
                         IF call[t].pc = "probe" /\ call[t].probe > 1
                         THEN "during"
                         ELSE IF call[t].pc \in {"store_load", "store_cas"}
                                 /\ @ = "no"
                              THEN "after"
                              ELSE @]]
    /\ last' = NoEvent
    /\ UNCHANGED <<config, root, gil, call>>

----------------------------------------------------------------------------
(* Logger::install and the log crate's global logger.                      *)

\* The Logger value built so far: `self` of the builder calls and of install.
Self == [top_filter |-> top_filter, filters |-> filters, caching |-> caching]

\* cmp::max
cmp_max(a, b) == IF a >= b THEN a ELSE b

\* self.filters.values().copied().max()
values_max(fs) ==
    IF DOMAIN fs = {} THEN None
    ELSE Some(CHOOSE v \in {fs[k] : k \in DOMAIN fs} :
                  \A k \in DOMAIN fs : fs[k] <= v)

\* Option::unwrap_or
unwrap_or(o, default) == IF o = None THEN default ELSE Unwrap(o)

\* An install level that looks at the default filter only.
install_level_top_only(self) == self.top_filter

\* The `level` of install: the most verbose of the filters of the logger.
install_level(self) ==
    cmp_max(self.top_filter, unwrap_or(values_max(self.filters), Off))

\* An install that sets the maximum level before it tries to set the logger.
install_level_first(self) ==
    /\ max_level' = install_level(self)
    /\ IF boxed_logger # None
       THEN /\ install_result' = "Err"
            /\ UNCHANGED boxed_logger
       ELSE /\ boxed_logger' = Some(self)
            /\ install_result' = "Ok"

\* Logger::install: log::set_boxed_logger(..)? fails when a logger is set
\* already, and install returns its error before log::set_max_level.
install(self) ==
    IF boxed_logger # None
    THEN /\ install_result' = "Err"
         /\ UNCHANGED <<boxed_logger, max_level>>
    ELSE /\ boxed_logger' = Some(self)
         /\ max_level' = install_level(self)
         /\ install_result' = "Ok"

Init ==
    /\ top_filter = InstalledTop
    /\ filters = InstalledFilters
    /\ caching \in Cachings
    /\ query = None
    /\ resolved = None
    /\ root = [id |-> 0, node |-> EmptyNode]
    /\ hostLevel \in HostLevels
    /\ gil = NoThread
    /\ call = [t \in Threads |-> IdleCall]
    /\ obs = [t \in Threads |-> NewObs]
    /\ last = NoEvent
    /\ boxed_logger = Some(Self)
    /\ max_level = install_level(Self)
    /\ install_result = "Ok"
    /\ heap = <<EmptyNode>>
    /\ arc_swap = 1
    /\ guard = [t \in Threads |-> None]
    /\ main = NoMain

Next ==
    \/ \E t \in Threads : \E r \in Records(t) : Log(t, r[1], r[2])
    \/ \E t \in Threads : WithGil(t)
    \/ \E t \in Threads : GetLogger(t)
    \/ \E t \in Threads : IsEnabledFor(t)
    \/ \E t \in Threads : MakeRecord(t)
    \/ \E t \in Threads : Handle(t)
    \/ \E t \in Threads : Probe(t)
    \/ \E t \in Threads : StoreLoad(t)
    \/ \E t \in Threads : StoreCas(t)
    \/ Reset
    \/ \E l \in HostLevels : HostSetLevel(l)

Spec == Init /\ [][Next]_vars

\* The steps of log() inside the with_gil closure.
InsideWithGil(t) ==
    \/ GetLogger(t)
    \/ IsEnabledFor(t)
    \/ MakeRecord(t)
    \/ Handle(t)
    \/ Probe(t)
    \/ StoreLoad(t)
    \/ StoreCas(t)

\* The record of the store runs: the one both threads log.
StoreRecord == <<Str_xa, Error>>

\* The store runs: both threads log the same record again and again, and
\* reset() is called and the host reconfigured at any moment, any number of
\* times.
NextStore ==
    \/ \E t \in Threads : Log(t, StoreRecord[1], StoreRecord[2])
    \/ \E t \in Threads : WithGil(t)
    \/ \E t \in Threads : InsideWithGil(t)
    \/ Reset
    \/ \E l \in HostLevels : HostSetLevel(l)

\* A thread that holds the lock runs, and a call into the host returns;
\* nothing is assumed of how often reset() and the host's threads run, nor
\* of a thread that waits for the lock.
SpecStore ==
    /\ Init
    /\ [][NextStore]_vars
    /\ \A t \in Threads : WF_vars(InsideWithGil(t))

----------------------------------------------------------------------------
(* The filter-table runs: Logger::new, the builder calls, then filter_for. *)

\* The targets overrides are registered for in the filter-table runs.
OverrideKeys == {Str_x, Str_xa, <<"x", ":", ":">>, <<"x", ":">>}

\* The filters the builder calls are given in the filter-table runs.
BuilderFilters == {Warn, Trace}

RECURSIVE StringsOfLen(_)
StringsOfLen(n) ==
    IF n = 0 THEN {<<>>}
    ELSE {Append(s, c) : s \in StringsOfLen(n - 1), c \in Alphabet}

\* The targets resolved in the filter-table runs.
Queries == UNION {StringsOfLen(n) : n \in 0..MaxLen} \cup {Str_xab}

\* What the filter-table runs leave alone.
rest == <<caching, root, hostLevel, gil, call, obs, last,
          boxed_logger, max_level, install_result, heap, arc_swap, guard, main>>

\* Logger::filter
filter_top(f) ==
    /\ query = None
    /\ top_filter' = f
    /\ UNCHANGED <<filters, query, resolved, rest>>

\* Logger::filter_target
filter_target(target, f) ==
    /\ query = None
    /\ filters' = MapInsert(filters, target, f)
    /\ UNCHANGED <<top_filter, query, resolved, rest>>

\* A call of filter_for on the configured logger.
Resolve(target) ==
    /\ query = None
    /\ query' = Some(target)
    /\ resolved' = Some(filter_for(target))
    /\ UNCHANGED <<top_filter, filters, rest>>

\* Logger::new
InitFilter ==
    /\ top_filter = Debug
    /\ filters = EmptyMap
    /\ caching = "LoggersAndLevels"
    /\ query = None
    /\ resolved = None
    /\ root = [id |-> 0, node |-> EmptyNode]
    /\ hostLevel = 10
    /\ gil = NoThread
    /\ call = [t \in Threads |-> IdleCall]
    /\ obs = [t \in Threads |-> NewObs]
    /\ last = NoEvent
    /\ boxed_logger = None
    /\ max_level = Off
    /\ install_result = "none"
    /\ heap = <<EmptyNode>>
    /\ arc_swap = 1
    /\ guard = [t \in Threads |-> None]
    /\ main = NoMain

NextFilter ==
    \/ \E f \in BuilderFilters : filter_top(f)
    \/ \E target \in OverrideKeys, f \in BuilderFilters : filter_target(target, f)
    \/ \E target \in Queries : Resolve(target)

SpecFilter == InitFilter /\ [][NextFilter]_vars

----------------------------------------------------------------------------
(* The install runs: loggers are built and installed, one after another.   *)

\* The targets overrides are registered for in the install runs.
InstallKeys == {Str_x, Str_xa}

\* The filters the builder calls are given in the install runs.
InstallFilters == {Off, Warn, Trace}

\* What the install runs leave alone.
logging_state == <<query, resolved, root, hostLevel, gil, call, obs, last,
                   heap, arc_swap, guard, main>>

\* Logger::new(py, c): the next logger to be built.
new(c) ==
    /\ install_result # "none"
    /\ top_filter' = Debug
    /\ filters' = EmptyMap
    /\ caching' = c
    /\ install_result' = "none"
    /\ UNCHANGED <<boxed_logger, max_level, logging_state>>

\* .filter(f) on the logger being built
BuildFilter(f) ==
    /\ install_result = "none"
    /\ top_filter' = f
    /\ UNCHANGED <<filters, caching, boxed_logger, max_level, install_result, logging_state>>

\* .filter_target(target, f) on the logger being built
BuildFilterTarget(target, f) ==
    /\ install_result = "none"
    /\ filters' = MapInsert(filters, target, f)
    /\ UNCHANGED <<top_filter, caching, boxed_logger, max_level, install_result, logging_state>>

\* .install() on the logger being built
Install ==
    /\ install_result = "none"
    /\ install(Self)
    /\ UNCHANGED <<top_filter, filters, caching, logging_state>>

\* try_init(): Logger::default().install()
try_init ==
    /\ install_result # "none"
    /\ top_filter' = Debug
    /\ filters' = EmptyMap
    /\ caching' = "LoggersAndLevels"
    /\ install([top_filter |-> Debug, filters |-> EmptyMap,
                caching |-> "LoggersAndLevels"])
    /\ UNCHANGED logging_state

\* The process starts with no logger installed: the log crate's maximum
\* level is Off, and the first Logger::new has returned.
InitInstall ==
    /\ top_filter = Debug
    /\ filters = EmptyMap
    /\ caching \in Cachings
    /\ query = None
    /\ resolved = None
    /\ root = [id |-> 0, node |-> EmptyNode]
    /\ hostLevel = 10
    /\ gil = NoThread
    /\ call = [t \in Threads |-> IdleCall]
    /\ obs = [t \in Threads |-> NewObs]
    /\ last = NoEvent
    /\ boxed_logger = None
    /\ max_level = Off
    /\ install_result = "none"
    /\ heap = <<EmptyNode>>
    /\ arc_swap = 1
    /\ guard = [t \in Threads |-> None]
    /\ main = NoMain

NextInstall ==
    \/ \E c \in Cachings : new(c)
    \/ \E f \in InstallFilters : BuildFilter(f)
    \/ \E target \in InstallKeys, f \in InstallFilters : BuildFilterTarget(target, f)
    \/ Install
    \/ try_init

SpecInstall == InitInstall /\ [][NextInstall]_vars

----------------------------------------------------------------------------
(* The allocation runs: the tree as Arc<CacheNode> allocations. A node's   *)
(* children are addresses; stores, resets and lookups run side by side.    *)

\* The CacheNodes the allocation runs may allocate.
MaxNodes == 10

\* The targets stored and looked up in the allocation runs: a module, its
\* submodule and a sibling of the submodule.
HeapTargets == {Str_x, Str_xa, Str_xab}

\* The filters of the entries stored in the allocation runs.
HeapFilters == {Warn, Debug}

\* Arc::new(node): the heap with the node at the next address.
ArcNew(h, node) == [heap |-> Append(h, node), addr |-> Len(h) + 1]

\* The tree of values reachable from an address.
RECURSIVE TreeAt(_, _)
TreeAt(h, a) ==
    [local |-> h[a].local,
     children |-> [seg \in DOMAIN h[a].children |->
                      TreeAt(h, h[a].children[seg])]]

\* The address or_default() answers for a child that is not there: a new
\* empty node, which no one else holds.
NoAddr == 0

\* A store_to_cache_recursive that writes into the node it is called on.
RECURSIVE store_to_cache_recursive_in_place(_, _, _, _)
store_to_cache_recursive_in_place(h, self, path, entry) ==
    IF self = NoAddr
    THEN IF path = <<>>
         THEN ArcNew(h, [EmptyNode EXCEPT !.local = Some(entry)])
         ELSE LET r == store_to_cache_recursive_in_place(h, NoAddr, Tail(path), entry)
              IN ArcNew(r.heap, [EmptyNode EXCEPT
                                    !.children = MapInsert(EmptyMap, Head(path), r.addr)])
    ELSE IF path = <<>>
         THEN [heap |-> [h EXCEPT ![self].local = Some(entry)], addr |-> self]
         ELSE LET child == IF Head(path) \in DOMAIN h[self].children
                           THEN h[self].children[Head(path)] ELSE NoAddr
                  r == store_to_cache_recursive_in_place(h, child, Tail(path), entry)
              IN [heap |-> [r.heap EXCEPT ![self].children =
                                MapInsert(@, Head(path), r.addr)],
                  addr |-> self]

\* A store_to_cache_recursive whose copy of the node leaves `local` out.
RECURSIVE store_to_cache_recursive_no_local(_, _, _, _)
store_to_cache_recursive_no_local(h, self, path, entry) ==
    LET me == IF self = NoAddr THEN EmptyNode
              ELSE [local |-> None, children |-> h[self].children]
    IN IF path # <<>>
       THEN LET segment == Head(path)
                child == IF segment \in DOMAIN me.children
                         THEN me.children[segment] ELSE NoAddr
                r == store_to_cache_recursive_no_local(h, child, Tail(path), entry)
            IN ArcNew(r.heap, [me EXCEPT !.children =
                                  MapInsert(@, segment, r.addr)])
       ELSE ArcNew(h, [me EXCEPT !.local = Some(entry)])

\* CacheNode::store_to_cache_recursive on allocations: `me` is a copy of
\* the node, its children the same Arcs; the child on the path is replaced
\* by what the call on it returns; Arc::new(me).
RECURSIVE store_to_cache_recursive_heap(_, _, _, _)
store_to_cache_recursive_heap(h, self, path, entry) ==
    LET me == IF self = NoAddr THEN EmptyNode
              ELSE [local |-> h[self].local, children |-> h[self].children]
    IN IF path # <<>>
       THEN LET segment == Head(path)
                child == IF segment \in DOMAIN me.children
                         THEN me.children[segment] ELSE NoAddr
                r == store_to_cache_recursive_heap(h, child, Tail(path), entry)
            IN ArcNew(r.heap, [me EXCEPT !.children =
                                  MapInsert(@, segment, r.addr)])
       ELSE ArcNew(h, [me EXCEPT !.local = Some(entry)])

\* What the allocation runs leave alone.
logger_state == <<top_filter, filters, caching, query, resolved, root, hostLevel,
                  gil, call, obs, last, boxed_logger, max_level, install_result,
                  main>>

\* Logger::lookup: self.cache.load(); the thread holds a Guard of the root
\* while it walks the tree.
Load(t) ==
    /\ t = "t2"
    /\ guard[t] = None
    /\ guard' = [guard EXCEPT ![t] =
                     Some([addr |-> arc_swap, seen |-> TreeAt(heap, arc_swap),
                           store |-> None])]
    /\ UNCHANGED <<heap, arc_swap, logger_state>>

\* The end of lookup: the Guard is dropped.
LookupReturn(t) ==
    /\ t = "t2"
    /\ guard[t] # None
    /\ guard' = [guard EXCEPT ![t] = None]
    /\ UNCHANGED <<heap, arc_swap, logger_state>>

\* store_to_cache(py, target, entry): let orig = self.cache.load()
StoreBegin(t, target, filter) ==
    /\ t = "t1"
    /\ guard[t] = None
    /\ Len(heap) + Len(Split(target)) + 1 <= MaxNodes
    /\ guard' = [guard EXCEPT ![t] =
                     Some([addr |-> arc_swap, seen |-> TreeAt(heap, arc_swap),
                           store |-> Some([target |-> target,
                                           entry |-> CacheEntry(filter,
                                               getLogger(Replace(target)))])])]
    /\ UNCHANGED <<heap, arc_swap, logger_state>>

\* store_to_cache: the new tree and the compare_and_swap.
Store(t) ==
    /\ t = "t1"
    /\ guard[t] # None
    /\ LET orig == Unwrap(guard[t]).addr
           st == Unwrap(Unwrap(guard[t]).store)
           built == store_to_cache_recursive_heap(heap, orig, Split(st.target),
                                                  st.entry)
       IN /\ heap' = built.heap
          /\ arc_swap' = IF arc_swap = orig THEN built.addr ELSE arc_swap
    /\ guard' = [guard EXCEPT ![t] = None]
    /\ UNCHANGED logger_state

\* ResetHandle::reset on allocations: a new empty node is stored.
ResetHeap ==
    /\ Len(heap) + 1 <= MaxNodes
    /\ LET empty == ArcNew(heap, EmptyNode)
       IN heap' = empty.heap /\ arc_swap' = empty.addr
    /\ UNCHANGED <<guard, logger_state>>

\* Logger::new: cache: Default::default()
InitHeap ==
    /\ top_filter = Debug
    /\ filters = EmptyMap
    /\ caching = "LoggersAndLevels"
    /\ query = None
    /\ resolved = None
    /\ root = [id |-> 0, node |-> EmptyNode]
    /\ hostLevel = 10
    /\ gil = NoThread
    /\ call = [t \in Threads |-> IdleCall]
    /\ obs = [t \in Threads |-> NewObs]
    /\ last = NoEvent
    /\ boxed_logger = None
    /\ max_level = Off
    /\ install_result = "none"
    /\ heap = <<EmptyNode>>
    /\ arc_swap = 1
    /\ guard = [t \in Threads |-> None]
    /\ main = NoMain

NextHeap ==
    \/ \E t \in Threads : Load(t)
    \/ \E t \in Threads : LookupReturn(t)
    \/ \E t \in Threads, target \in HeapTargets, filter \in HeapFilters :
           StoreBegin(t, target, filter)
    \/ \E t \in Threads : Store(t)
    \/ ResetHeap

SpecHeap == InitHeap /\ [][NextHeap]_vars

----------------------------------------------------------------------------
(* The join runs: the crate docs' deadlock() and dont_deadlock(): a        *)
(* #[pyfunction], called with the GIL held, spawns a thread that logs one  *)
(* record and joins it, inside py.allow_threads or not.                    *)

\* The thread the #[pyfunction] runs on, as a holder of the lock.
MainThread == "main"

\* The spawned thread.
Background == "t1"

\* An entry for the target as a log call leaves it with LoggersAndLevels and
\* the host at its present level.
ProbedFilter == CHOOSE f \in LevelFilters : Reflects(f, <<>>)

\* The trees the join runs start with: nothing cached, or the entry an
\* earlier log call for "x::a" has left.
JoinRoots ==
    {EmptyNode} \cup
    (IF caching = "Nothing" THEN {}
     ELSE {store_to_cache_recursive(
               EmptyNode, Split(Str_xa),
               CacheEntry(IF caching = "Loggers" THEN LevelFilterMax
                          ELSE ProbedFilter,
                          getLogger(Replace(Str_xa))))})

\* What the #[pyfunction]'s own steps leave alone.
logger_and_cache == <<top_filter, filters, caching, query, resolved, root,
                      hostLevel, call, obs, last, boxed_logger, max_level,
                      install_result, heap, arc_swap, guard>>

\* py.allow_threads(|| { thread::spawn(..); ..join() }): the lock is given
\* up, the thread is spawned and the join begins.
AllowThreadsSpawnJoin ==
    /\ main.pc = "called" /\ main.releases
    /\ gil = MainThread
    /\ gil' = NoThread
    /\ main' = [main EXCEPT !.pc = "joining"]
    /\ UNCHANGED logger_and_cache

\* thread::spawn(..); background_thread.join(), with the lock held.
SpawnJoin ==
    /\ main.pc = "called" /\ ~main.releases
    /\ main' = [main EXCEPT !.pc = "joining"]
    /\ UNCHANGED <<gil, logger_and_cache>>

\* The spawned thread's info!(..): Log::log up to with_gil.
BackgroundLog(target, level) ==
    /\ main.pc = "joining"
    /\ last.kind = "none"
    /\ Log(Background, target, level)

\* What is left of the spawned thread's log call, one step of it.
BackgroundStep ==
    \/ WithGil(Background)
    \/ GetLogger(Background)
    \/ IsEnabledFor(Background)
    \/ MakeRecord(Background)
    \/ Handle(Background)
    \/ Probe(Background)
    \/ StoreLoad(Background)
    \/ StoreCas(Background)

\* join() returns when the spawned thread has ended; allow_threads takes
\* the lock again before it returns.
JoinReturns ==
    /\ main.pc = "joining"
    /\ last.kind = "log" /\ last.t = Background
    /\ IF main.releases
       THEN gil = NoThread /\ gil' = MainThread
       ELSE UNCHANGED gil
    /\ main' = [main EXCEPT !.pc = "returned"]
    /\ UNCHANGED logger_and_cache

\* Python has called deadlock() or dont_deadlock(py): the lock is held by
\* the calling thread.
InitJoin ==
    /\ top_filter = InstalledTop
    /\ filters = InstalledFilters
    /\ caching \in Cachings
    /\ query = None
    /\ resolved = None
    /\ hostLevel \in HostLevels
    /\ root \in {[id |-> 0, node |-> n] : n \in JoinRoots}
    /\ gil = MainThread
    /\ call = [t \in Threads |-> IdleCall]
    /\ obs = [t \in Threads |-> NewObs]
    /\ last = NoEvent
    /\ boxed_logger = Some(Self)
    /\ max_level = install_level(Self)
    /\ install_result = "Ok"
    /\ heap = <<EmptyNode>>
    /\ arc_swap = 1
    /\ guard = [t \in Threads |-> None]
    /\ main \in {[pc |-> "called", releases |-> r] : r \in BOOLEAN}

NextJoin ==
    \/ AllowThreadsSpawnJoin
    \/ SpawnJoin
    \/ \E r \in Records(Background) : BackgroundLog(r[1], r[2])
    \/ BackgroundStep
    \/ JoinReturns

\* The operating system runs a thread that can run, and a host call returns.
SpecJoin ==
    /\ InitJoin
    /\ [][NextJoin]_vars
    /\ WF_vars(\E r \in Records(Background) : BackgroundLog(r[1], r[2]))
    /\ WF_vars(BackgroundStep)
    /\ WF_vars(AllowThreadsSpawnJoin \/ SpawnJoin \/ JoinReturns)

----------------------------------------------------------------------------
(* C2 *)

RECURSIVE Join(_)
\* The segments joined with "::" between them.
Join(segments) ==
    IF Len(segments) = 1 THEN segments[1]
    ELSE segments[1] \o <<":", ":">> \o Join(Tail(segments))

\* The prefixes of target that end on a segment boundary, target included.
SegmentPrefixes(target) ==
    LET segments == Split(target)
    IN {Join(SubSeq(segments, 1, k)) : k \in 1..Len(segments)}

\* The override of the longest registered segment prefix, or the default.
MostSpecific(target) ==
    LET ks == DOMAIN filters \cap SegmentPrefixes(target)
    IN IF ks = {} THEN top_filter
       ELSE filters[CHOOSE k \in ks : \A j \in ks : Len(j) <= Len(k)]

\* C2: filter_for(q) is the override registered for the longest prefix of q
\* that ends on a "::" segment boundary (q itself included), and the default
\* filter when no such prefix has an override.
C2_MostSpecificPrefixWins ==
    query # None => Unwrap(resolved) = MostSpecific(Unwrap(query))

\* "x::ab" was resolved with overrides for "x" and for "x::a" that differ:
\* the answer is that of "x".
C2_Witness ==
    /\ query = Some(Str_xab)
    /\ {Str_x, Str_xa} \subseteq DOMAIN filters
    /\ filters[Str_x] # filters[Str_xa]
    /\ top_filter # filters[Str_x]
    /\ resolved = Some(filters[Str_x])

----------------------------------------------------------------------------
(* C1 *)

\* The targets the pre-check is evaluated for: the logged ones, a sibling
\* that only shares a string prefix, and one no override or entry covers.
CheckedTargets == LogTargets \cup {Str_xab, <<"a">>}

\* C1: enabled(p, s) is false whenever s is less severe than filter_for(p),
\* whatever the caching mode and whatever is cached for p; and no log call
\* gets past its pre-check with such a severity.
C1_FilterTableIsUpperBound ==
    /\ \A p \in CheckedTargets, s \in Levels :
           s > filter_for(p) => ~enabled(s, p)
    /\ \A t \in Threads :
           call[t].pc # "idle" => call[t].level <= filter_for(call[t].target)

\* The entry cached for "x" admits Debug, the filter table does not, and
\* enabled("x", Debug) is false.
C1_Witness ==
    /\ LocalOf(lookup(Str_x)) # None
    /\ Unwrap(LocalOf(lookup(Str_x))).filter = Debug
    /\ filter_for(Str_x) = Warn
    /\ ~enabled(Debug, Str_x)

----------------------------------------------------------------------------
(* C3 *)

\* C3: no entry is installed after a completed reset() whose handle or
\* effective filter was obtained from the host before that reset; stated for
\* the entries whose staleness shows: the filter was probed, the host was
\* reconfigured to accept more, reset() completed, and then the entry was
\* installed.
C3_NoStaleInstallAfterReset ==
    ~(last.kind = "log" /\ last.o.cas = "won" /\ last.o.staleHost
                       /\ last.o.staleFilter)

----------------------------------------------------------------------------
(* C4 *)

\* C4: a store whose root snapshot was loaded before a reset() and whose
\* compare-and-swap comes after it leaves the root as the reset left it;
\* and reset() replaces the root with the empty tree whatever the root is.
C4_ResetWinsOverRacingStore ==
    [][/\ \A t \in Threads :
              (call[t].pc = "store_cas" /\ call'[t].pc = "idle" /\ obs[t].staleLoad)
                  => (root' = root /\ root.node = EmptyNode /\ last'.o.cas = "lost")
       /\ last'.kind = "reset" => root'.node = EmptyNode]_vars

\* A store has just lost against a reset that came between its load of a
\* tree with entries and its compare-and-swap.
C4_Witness ==
    /\ last.kind = "log"
    /\ last.o.staleLoad
    /\ last.o.cas = "lost"
    /\ Unwrap(last.o.before) # EmptyNode
    /\ root.node = EmptyNode

----------------------------------------------------------------------------
(* C5 *)

\* C5: when the store of a log call that missed the cache is not overtaken by
\* a reset, lookup of its target then finds the entry with the handle the
\* call obtained; when it is overtaken, the root is left as it was; and what
\* is cached for a target is always a whole entry written for that target.
C5_StoredEntryIsFound ==
    [][\A t \in Threads :
           (call[t].pc = "store_cas" /\ call'[t].pc = "idle") =>
               /\ ~obs[t].hit /\ obs[t].lookups = 1
               /\ IF obs[t].staleLoad
                  THEN root' = root
                  ELSE EntryAt(root'.node, call[t].target) =
                           Some(CacheEntry(call[t].filter,
                                           getLogger(Replace(call[t].target))))
               /\ \A p \in LogTargets :
                      EntryAt(root'.node, p) # None =>
                          Unwrap(EntryAt(root'.node, p)).logger = getLogger(Replace(p))]_vars

\* A log call on "x::a" that missed the cache has just returned, its store
\* installed, and lookup finds the handle "x.a".
C5_Witness ==
    /\ last.kind = "log"
    /\ last.o.target = Str_xa
    /\ ~last.o.hit
    /\ last.o.cas = "won"
    /\ LocalOf(lookup(Str_xa)) # None
    /\ Unwrap(LocalOf(lookup(Str_xa))).logger = <<"x", ".", "a">>

----------------------------------------------------------------------------
(* C6 *)

\* C6: with LoggersAndLevels, a log call that finds no entry for its path
\* and runs to its end without a host error makes one getLogger call, one
\* isEnabledFor re-check and one extract_max_level; a log call that finds
\* an entry makes no getLogger call and no probe but one isEnabledFor
\* re-check, which comes before makeRecord and handle; and an entry once
\* stored is found until the next reset().
C6_SecondCallUsesCachedHandle ==
    [][caching = "LoggersAndLevels" =>
         /\ (last'.kind = "log" /\ last'.o.outcome = "done") =>
                IF last'.o.hit
                THEN /\ last'.o.lookups = 0
                     /\ last'.o.extracts = 0 /\ last'.o.probes = 0
                     /\ last'.o.checks = 1
                     /\ last'.o.cas = "none"
                ELSE /\ last'.o.lookups = 1
                     /\ last'.o.extracts = 1 /\ last'.o.probes >= 1
                     /\ last'.o.checks = 1
         /\ \A t \in Threads :
                call'[t].pc \in {"make_record", "handle"} =>
                    obs'[t].checks = 1 /\ obs'[t].answer = "yes"
         /\ \A p \in LogTargets :
                (EntryAt(root.node, p) # None /\ last'.kind # "reset")
                    => EntryAt(root'.node, p) # None]_vars

\* With LoggersAndLevels a log call that found the entry of its path has
\* dispatched its record without asking the host for the logger.
C6_Witness ==
    /\ caching = "LoggersAndLevels"
    /\ last.kind = "log"
    /\ last.o.hit
    /\ last.o.outcome = "done"
    /\ last.o.lookups = 0
    /\ last.o.checks = 1
    /\ last.o.dispatches = 1

----------------------------------------------------------------------------
(* C7 *)

\* C7: when reset() returns, no path has an entry and enabled() is decided
\* by the filter table alone; a log call that starts next, on a path that
\* had an entry, misses the cache, asks the host for the logger again when
\* it passes the pre-check, and, when no further reset and no host
\* reconfiguration or probe failure comes in its way, leaves an entry that
\* agrees with the host as it is configured now.
C7_ResetMakesNextCallAFirstCall ==
    /\ last.kind = "reset" =>
           \A p \in CheckedTargets :
               /\ LocalOf(lookup(p)) = None
               /\ \A s \in Levels : enabled(s, p) <=> s <= filter_for(p)
    /\ \A t \in Threads :
           (call[t].pc # "idle" /\ obs[t].postReset) =>
               ~obs[t].hit /\ LocalOf(call[t].cache) = None
    /\ (last.kind = "log" /\ last.o.postReset) =>
           /\ ~last.o.hit
           /\ (last.o.outcome = "filtered") <=>
                  (last.o.level > filter_for(last.o.target))
           /\ last.o.outcome = "done" =>
                  /\ last.o.lookups = 1
                  /\ last.o.checks = 1
                  /\ ~last.o.staleLoad => last.o.cas = "won"
                  /\ (last.o.cas = "won" /\ ~last.o.probeErr
                                         /\ last.o.probedStale = "no") =>
                         LET e == EntryAt(root.node, last.o.target)
                         IN /\ e # None
                            /\ Unwrap(e).logger = getLogger(Replace(last.o.target))
                            /\ IF caching = "LoggersAndLevels"
                               THEN Reflects(Unwrap(e).filter, Unwrap(e).logger)
                               ELSE Unwrap(e).filter = LevelFilterMax

\* A log call that started right after a reset() dropped the entry of its
\* path has asked the host again and stored a new entry.
C7_Witness ==
    /\ caching = "LoggersAndLevels"
    /\ last.kind = "log"
    /\ last.o.postReset
    /\ last.o.outcome = "done"
    /\ last.o.lookups = 1
    /\ last.o.cas = "won"
    /\ last.o.probedStale = "no"
    /\ ~last.o.probeErr
    /\ Reflects(Unwrap(EntryAt(root.node, last.o.target)).filter,
                Unwrap(EntryAt(root.node, last.o.target)).logger)

----------------------------------------------------------------------------
(* C8 *)

\* C8: with LoggersAndLevels, a log call that finds no entry for its path
\* and passes the filter table takes the lock once, and the filter it
\* stores, when its probes meet no host failure or reconfiguration, is the
\* host's; a log call that finds an entry with the host's filter, at a
\* level the host has disabled, returns from the pre-check: no lock, no
\* host call.
C8_DisabledLevelShortCircuits ==
    (caching = "LoggersAndLevels" /\ last.kind = "log") =>
        /\ (~last.o.hit /\ last.o.level <= filter_for(last.o.target)) =>
               last.o.gilTaken = 1
        /\ (last.o.cas = "won" /\ ~last.o.probeErr
                               /\ last.o.probedStale = "no") =>
               Reflects(Unwrap(EntryAt(root.node, last.o.target)).filter,
                        Unwrap(EntryAt(root.node, last.o.target)).logger)
        /\ (/\ last.o.hit
            /\ Reflects(Unwrap(last.o.entry).filter, Unwrap(last.o.entry).logger)
            /\ ~isEnabledFor(Unwrap(last.o.entry).logger, map_level(last.o.level))) =>
               /\ last.o.outcome = "filtered"
               /\ last.o.gilTaken = 0
               /\ last.o.lookups = 0 /\ last.o.checks = 0 /\ last.o.probes = 0
               /\ last.o.records = 0 /\ last.o.dispatches = 0

\* A Debug record for "x::a", which the filter table lets through, has been
\* cut by the cached filter of a host at WARNING without taking the lock.
C8_Witness ==
    /\ caching = "LoggersAndLevels"
    /\ last.kind = "log"
    /\ last.o.hit
    /\ last.o.target = Str_xa /\ last.o.level = Debug
    /\ last.o.level <= filter_for(last.o.target)
    /\ ~isEnabledFor(Unwrap(last.o.entry).logger, map_level(last.o.level))
    /\ last.o.outcome = "filtered"
    /\ last.o.gilTaken = 0

----------------------------------------------------------------------------
(* C9 *)

\* C9: a log call reaches makeRecord only from an isEnabledFor call of its
\* own that the host answers with true at that moment, and handle only
\* from makeRecord, on a cache hit as on a miss; a log call whose
\* isEnabledFor was answered with false has made no record and dispatched
\* none.
C9_DispatchOnlyAfterLiveCheck ==
    [][/\ \A t \in Threads :
            /\ (call'[t].pc = "make_record" /\ call[t].pc # "make_record") =>
                   /\ call[t].pc = "is_enabled"
                   /\ isEnabledFor(call[t].logger, map_level(call[t].level))
                   /\ obs'[t].checks = 1
            /\ (call'[t].pc = "handle" /\ call[t].pc # "handle") =>
                   call[t].pc = "make_record" /\ obs[t].answer = "yes"
            /\ obs'[t].records > obs[t].records => call[t].pc = "make_record"
            /\ obs'[t].answer = "no" =>
                   obs'[t].records = 0 /\ obs'[t].dispatches = 0
       /\ last'.kind = "log" =>
            /\ (last'.o.records > 0 \/ last'.o.dispatches > 0) =>
                   last'.o.answer = "yes" /\ last'.o.checks = 1
            /\ last'.o.dispatches > 0 => last'.o.records = 1
            /\ last'.o.answer = "no" =>
                   last'.o.records = 0 /\ last'.o.dispatches = 0]_vars

\* A log call that found an entry whose filter admits its level was told
\* by the host that the level is off, and has made no record.
C9_Witness ==
    /\ last.kind = "log"
    /\ last.o.hit
    /\ last.o.level <= Unwrap(last.o.entry).filter
    /\ last.o.answer = "no"
    /\ last.o.outcome = "done"
    /\ last.o.records = 0
    /\ last.o.dispatches = 0

----------------------------------------------------------------------------
(* C10 *)

\* The positions inside store_to_cache.
StorePcs == {"store_load", "store_cas"}

\* C10 as stated: the lock is held only around calls into the host; it is
\* not held at the root load or at the compare-and-swap of store_to_cache.
C10_GilOnlyAroundHostCalls ==
    \A t \in Threads : gil = t => call[t].pc \in HostPcs

\* C10: a thread holds the lock from Python::with_gil until log() returns,
\* store_to_cache included; the lookup and the pre-check of log() and
\* reset() neither take the lock nor wait for it, whoever holds it.
C10_GilHeldUntilLogReturns ==
    [][/\ \A t \in Threads :
            /\ (gil' = t) <=> (call'[t].pc \in HostPcs \cup StorePcs)
            /\ (call[t].pc = "idle" /\ call'[t].pc # "idle") => gil' = gil
            /\ (call[t].pc = "idle" /\ last'.kind = "log" /\ last'.t = t) =>
                   gil' = gil
       /\ last'.kind = "reset" => gil' = gil]_vars

\* A thread is at the compare-and-swap of store_to_cache with the lock,
\* a reset() has run since its root load, and the other thread has done its
\* lookup and pre-check and waits for the lock.
C10_Witness ==
    \E t, u \in Threads :
        /\ call[t].pc = "store_cas"
        /\ gil = t
        /\ obs[t].staleLoad
        /\ call[u].pc = "with_gil"

----------------------------------------------------------------------------
(* C11 *)

\* The filters of the logger installed: its default and its overrides.
ConfiguredFilters(self) ==
    {self.top_filter} \cup {self.filters[k] : k \in DOMAIN self.filters}

\* C11: when install() has set the logger, the global maximum level is one
\* of the logger's filters and none of them is more verbose; so every level
\* that filter_for admits for some target passes the global maximum level.
C11_MaxLevelAdmitsEveryFilter ==
    install_result = "Ok" =>
        /\ boxed_logger = Some(Self)
        /\ max_level \in ConfiguredFilters(Self)
        /\ \A f \in ConfiguredFilters(Self) : f <= max_level
        /\ \A p \in CheckedTargets, s \in Levels :
               s <= filter_for(p) => s <= max_level

\* A logger with the default Warn and the override Trace for "x::a" is
\* installed, and the global maximum level is Trace.
C11_Witness ==
    /\ install_result = "Ok"
    /\ top_filter = Warn
    /\ Str_xa \in DOMAIN filters /\ filters[Str_xa] = Trace
    /\ filter_for(Str_xa) = Trace
    /\ max_level = Trace

----------------------------------------------------------------------------
(* C12 *)

\* C12: once a logger is installed it stays the installed one, the global
\* maximum level keeps its value, and no later install() or try_init()
\* returns Ok; an install() with no logger installed returns Ok and
\* installs its logger.
C12_SingleInstall ==
    [][/\ boxed_logger # None =>
            /\ boxed_logger' = boxed_logger
            /\ max_level' = max_level
            /\ install_result' = "Ok" => install_result = "Ok"
            /\ (install_result' # install_result /\ install_result' # "none")
                   => install_result' = "Err"
       /\ (boxed_logger = None /\ install_result' # install_result) =>
            install_result' = "Ok" /\ boxed_logger' # None]_vars

\* A second logger, with filters more verbose than the maximum level set
\* by the first, was refused.
C12_Witness ==
    /\ install_result = "Err"
    /\ boxed_logger # None
    /\ Unwrap(boxed_logger) # Self
    /\ install_level(Self) > max_level
    /\ max_level = install_level(Unwrap(boxed_logger))

----------------------------------------------------------------------------
(* C13 *)

\* C13: every log call that has returned has returned normally: cut by the
\* pre-check, done, or with the host's error printed, its lock given back;
\* no call comes to the unreachable!() of Caching::Nothing; and a call in
\* progress past with_gil holds the lock, so that nothing keeps it from
\* its next step.
C13_LogNeverFails ==
    /\ last.kind = "log" =>
           /\ last.o.outcome \in {"filtered", "done", "error"}
           /\ call[last.t].pc = "idle"
           /\ gil # last.t
    /\ \A t \in Threads :
           /\ obs[t].outcome \in {"none", "running"}
           /\ call[t].pc \in HostPcs \cup {"store_load", "store_cas"} => gil = t
           /\ call[t].pc \in {"probe", "store_load", "store_cas"} =>
                  caching # "Nothing"

\* With Caching::Nothing a log call whose record was made has met a host
\* error in handle, and has returned.
C13_Witness ==
    /\ caching = "Nothing"
    /\ last.kind = "log"
    /\ last.o.outcome = "error"
    /\ last.o.records = 1
    /\ last.o.dispatches = 0
    /\ call[last.t].pc = "idle"

----------------------------------------------------------------------------
(* C15 *)

\* C15: for a target with no entry of its own in the tree (no node, or a
\* node without a local entry, whatever is cached for its ancestors, its
\* descendants or its siblings), and for every target when the caching mode
\* is Nothing or Loggers, enabled() is what the filter table says.
C15_OnlyOwnEntrySuppresses ==
    \A p \in CheckedTargets :
        (EntryAt(root.node, p) = None \/ caching # "LoggersAndLevels") =>
            \A s \in Levels : enabled(s, p) <=> s <= filter_for(p)

\* "x" has an entry that cuts Info, "x::a" has none, and Info and Debug are
\* enabled for "x::a" and for "x::ab" as the filter table says.
C15_Witness ==
    /\ caching = "LoggersAndLevels"
    /\ EntryAt(root.node, Str_x) # None
    /\ Unwrap(EntryAt(root.node, Str_x)).filter = Warn
    /\ EntryAt(root.node, Str_xa) = None
    /\ enabled(Debug, Str_xa)
    /\ enabled(Info, Str_xa)

----------------------------------------------------------------------------
(* C16 *)

\* C16: a log call goes on to with_gil only when enabled_inner is true for
\* its record and the node it looked up; a log call cut by the pre-check
\* returns at once: the root, the lock, the host and every call in progress
\* are as they were, and it has made no host call.
C16_FilteredCallDoesNothing ==
    [][/\ \A t \in Threads :
            (call[t].pc = "idle" /\ call'[t].pc # "idle") =>
                /\ call'[t].pc = "with_gil"
                /\ enabled(call'[t].level, call'[t].target)
                /\ root' = root /\ gil' = gil
       /\ (last'.kind = "log" /\ last'.o.outcome = "filtered") =>
            /\ ~enabled(last'.o.level, last'.o.target)
            /\ root' = root /\ gil' = gil /\ hostLevel' = hostLevel
            /\ call' = call /\ obs' = obs
            /\ call[last'.t].pc = "idle"
            /\ last'.o.gilTaken = 0
            /\ last'.o.lookups = 0 /\ last'.o.checks = 0 /\ last'.o.probes = 0
            /\ last'.o.records = 0 /\ last'.o.dispatches = 0
            /\ last'.o.cas = "none"]_vars

\* A Debug record for "x", which the default filter Warn cuts, has been
\* dropped while the cache has entries and the other thread holds the lock.
C16_Witness ==
    /\ last.kind = "log"
    /\ last.o.outcome = "filtered"
    /\ last.o.target = Str_x /\ last.o.level = Debug
    /\ ~last.o.hit
    /\ last.o.gilTaken = 0
    /\ root.node # EmptyNode
    /\ gil \in Threads /\ gil # last.t

----------------------------------------------------------------------------
(* C18 *)

\* C18: with Caching::Nothing the root is the empty tree in every state,
\* lookup answers None for every target, no log call comes to a probe or a
\* store, and a log call that passed the filter table and ran to its end
\* has asked the host for the logger and for isEnabledFor, once each.
C18_NothingNeverCaches ==
    caching = "Nothing" =>
        /\ root.node = EmptyNode
        /\ \A p \in CheckedTargets :
               lookup(p) = None /\ EntryAt(root.node, p) = None
        /\ \A t \in Threads :
               /\ call[t].pc \notin {"probe", "store_load", "store_cas"}
               /\ call[t].cache = None /\ ~call[t].cached
               /\ call[t].orig = None
               /\ call[t].pc \in {"make_record", "handle"} =>
                      obs[t].lookups = 1 /\ obs[t].checks = 1
        /\ last.kind = "log" =>
               /\ ~last.o.hit
               /\ last.o.cas = "none" /\ last.o.extracts = 0 /\ last.o.probes = 0
               /\ (last.o.outcome = "filtered") <=>
                      (last.o.level > filter_for(last.o.target))
               /\ last.o.outcome = "done" =>
                      last.o.lookups = 1 /\ last.o.checks = 1

\* With Caching::Nothing a log call for "x::a" has asked the host for the
\* logger and run to its end, while the other thread, whose lookup for
\* "x::a" answered None, waits for the lock.
C18_Witness ==
    /\ caching = "Nothing"
    /\ last.kind = "log"
    /\ last.o.target = Str_xa
    /\ last.o.outcome = "done"
    /\ last.o.lookups = 1
    /\ last.o.dispatches = 1
    /\ \E t \in Threads :
           /\ t # last.t
           /\ call[t].pc = "with_gil"
           /\ call[t].target = Str_xa
           /\ call[t].cache = None

----------------------------------------------------------------------------
(* C19 *)

\* C19: reset() leaves the empty tree, in which lookup finds nothing for
\* any target, and changes nothing else: not the filter table, the caching
\* mode, the installed logger, the lock, the host or the locals of a log
\* call; and a reset() that comes right after a reset() leaves the tree,
\* and what enabled() answers, as the first left them.
C19_ResetIsIdempotent ==
    [][last'.kind = "reset" =>
         /\ root'.node = EmptyNode
         /\ \A p \in LogTargets : lookup_walk(root'.node, Split(p)) = None
         /\ <<top_filter, filters, caching>>' = <<top_filter, filters, caching>>
         /\ <<boxed_logger, max_level>>' = <<boxed_logger, max_level>>
         /\ <<hostLevel, gil, call>>' = <<hostLevel, gil, call>>
         /\ last.kind = "reset" =>
                /\ root'.node = root.node
                /\ last'.o.dropped = {}
                /\ \A p \in LogTargets, s \in LogLevels :
                       enabled(s, p)' <=> enabled(s, p)]_vars

\* reset() has returned right after a reset(), while a log call that loaded
\* the root before them waits to store an entry.
C19_Witness ==
    /\ last.kind = "reset"
    /\ last.o.postReset
    /\ root.node = EmptyNode
    /\ \E t \in Threads : call[t].pc = "store_cas" /\ obs[t].staleLoad

----------------------------------------------------------------------------
(* C14 *)

\* The addresses reachable from an address.
RECURSIVE Reach(_, _)
Reach(h, a) ==
    {a} \cup UNION {Reach(h, h[a].children[seg]) : seg \in DOMAIN h[a].children}

\* C14: no step changes a node that is allocated; the tree under a root a
\* thread has loaded is the tree it saw when it loaded it, for as long as
\* it holds it; and whenever the root changes, the new root is the empty
\* tree or the tree of the old root with one whole store applied.
C14_RootsAreImmutableTrees ==
    [][/\ \A a \in DOMAIN heap : a \in DOMAIN heap' /\ heap'[a] = heap[a]
       /\ \A t \in Threads :
              guard'[t] # None =>
                  /\ Reach(heap', Unwrap(guard'[t]).addr) \subseteq DOMAIN heap'
                  /\ TreeAt(heap', Unwrap(guard'[t]).addr) = Unwrap(guard'[t]).seen
       /\ Reach(heap', arc_swap') \subseteq DOMAIN heap'
       /\ arc_swap' # arc_swap =>
              \/ TreeAt(heap', arc_swap') = EmptyNode
              \/ \E target \in HeapTargets, f \in HeapFilters :
                     TreeAt(heap', arc_swap') =
                         store_to_cache_recursive(
                             TreeAt(heap, arc_swap), Split(target),
                             CacheEntry(f, getLogger(Replace(target))))]_vars

\* A lookup holds a root with entries that is no longer the current one,
\* and the current root, with other entries, shares a node with it.
C14_Witness ==
    /\ guard["t2"] # None
    /\ Unwrap(guard["t2"]).addr # arc_swap
    /\ Unwrap(guard["t2"]).seen # EmptyNode
    /\ TreeAt(heap, arc_swap) \notin {EmptyNode, Unwrap(guard["t2"]).seen}
    /\ Reach(heap, arc_swap) \cap Reach(heap, Unwrap(guard["t2"]).addr) # {}

----------------------------------------------------------------------------
(* C20 *)

\* The targets whose entries are compared before and after a store.
StoreCheckedTargets == HeapTargets \cup {<<"a">>}

\* C20: a store for target p that installs its root gives p its entry and
\* leaves the entry of every other target as it was, those of the
\* ancestors, descendants and siblings of p included; a target that had
\* no node of its own has none after it, unless it is p or a segment prefix
\* of p, and such a prefix gets a node without an entry.
C20_StoreChangesOnlyItsPath ==
    [][\A t \in Threads :
           (guard[t] # None /\ Unwrap(guard[t]).store # None
                /\ guard'[t] = None /\ arc_swap' # arc_swap) =>
               LET p == Unwrap(Unwrap(guard[t]).store).target
                   e == Unwrap(Unwrap(guard[t]).store).entry
                   old == TreeAt(heap, arc_swap)
                   now == TreeAt(heap', arc_swap')
               IN /\ EntryAt(now, p) = Some(e)
                  /\ \A q \in StoreCheckedTargets \ {p} :
                         /\ EntryAt(now, q) = EntryAt(old, q)
                         /\ (lookup_walk(old, Split(q)) = None
                                /\ lookup_walk(now, Split(q)) # None) =>
                                /\ q \in SegmentPrefixes(p)
                                /\ Unwrap(lookup_walk(now, Split(q))).local = None]_vars

\* "x", "x::a" and "x::ab" have been stored one after another, with filters
\* that differ, and each has the entry of its store.
C20_Witness ==
    /\ guard["t1"] = None
    /\ EntryAt(TreeAt(heap, arc_swap), Str_x) # None
    /\ EntryAt(TreeAt(heap, arc_swap), Str_xa) # None
    /\ EntryAt(TreeAt(heap, arc_swap), Str_xab) # None
    /\ Unwrap(EntryAt(TreeAt(heap, arc_swap), Str_x)).filter = Warn
    /\ Unwrap(EntryAt(TreeAt(heap, arc_swap), Str_xa)).filter = Debug
    /\ Unwrap(EntryAt(TreeAt(heap, arc_swap), Str_xab)).filter = Warn
    /\ Unwrap(EntryAt(TreeAt(heap, arc_swap), Str_xa)).logger = <<"x", ".", "a">>

----------------------------------------------------------------------------
(* C17 *)

\* C17: the spawned thread's log call goes past with_gil only when no one
\* holds the lock; when the function joins with the lock held and the log
\* call has passed its pre-check, no step is left to either thread; when
\* the function joins inside allow_threads, the join returns.
C17_JoinWithGilDeadlocks ==
    /\ [][/\ (call[Background].pc = "with_gil" /\ call'[Background].pc # "with_gil")
                 => gil = NoThread /\ gil' = Background
           /\ ~(/\ main.pc = "joining" /\ ~main.releases
                /\ call[Background].pc = "with_gil")]_vars
    /\ (main.pc = "called" /\ main.releases) ~> (main.pc = "returned")

\* deadlock(): the function waits in join() with the lock, and the spawned
\* thread, whose Error record for "x::a" passed the pre-check, waits for the
\* lock.
C17_Witness ==
    /\ main.pc = "joining"
    /\ ~main.releases
    /\ gil = MainThread
    /\ call[Background].pc = "with_gil"
    /\ call[Background].target = Str_xa
    /\ obs[Background].gilTaken = 0

----------------------------------------------------------------------------
(* C21 *)

\* C21: a log call whose lookup found an entry for its target uses the
\* cached logger, never comes to the level probe or to store_to_cache and
\* ends without a compare-and-swap, and no step of it changes the root; the
\* root changes only by reset() or by the compare-and-swap of a log call
\* whose lookup had found no entry, and then the entry of a target changes
\* only if the target is that call's.
C21_StoreOnlyAfterMiss ==
    [][/\ \A t \in Threads :
            /\ (call'[t].pc # "idle" /\ obs'[t].hit) =>
                   /\ call'[t].pc \notin {"get_logger", "probe"} \cup StorePcs
                   /\ call'[t].orig = None
                   /\ obs'[t].lookups = 0 /\ obs'[t].extracts = 0
            /\ (call[t] # call'[t] /\ obs[t].hit) => root' = root
            /\ (last'.kind = "log" /\ last'.t = t /\ last'.o.hit) =>
                   /\ last'.o.cas = "none"
                   /\ last'.o.lookups = 0 /\ last'.o.extracts = 0
                   /\ root' = root
       /\ root' # root =>
              \/ last'.kind = "reset"
              \/ \E t \in Threads :
                     /\ call[t].pc = "store_cas" /\ call'[t].pc = "idle"
                     /\ ~obs[t].hit /\ ~call[t].cached
                     /\ last'.kind = "log" /\ last'.t = t /\ last'.o.cas = "won"
                     /\ \A p \in CheckedTargets \ {call[t].target} :
                            EntryAt(root'.node, p) = EntryAt(root.node, p)]_vars

\* A log call for "x::a" that found an entry has dispatched its record with
\* the cached logger and returned, the entry is still the one it found, and
\* the other thread, whose lookup for "x::a" had missed before the entry was
\* stored, waits for the lock.
C21_Witness ==
    /\ last.kind = "log"
    /\ last.o.hit
    /\ last.o.target = Str_xa
    /\ last.o.outcome = "done"
    /\ last.o.dispatches = 1
    /\ EntryAt(root.node, Str_xa) = last.o.entry
    /\ \E t \in Threads :
           /\ t # last.t
           /\ call[t].pc = "with_gil"
           /\ call[t].target = Str_xa
           /\ ~obs[t].hit

----------------------------------------------------------------------------
(* C22 *)

\* How far a log call is: every position of log() inside with_gil, in the
\* order the code goes through them, the passes of extract_max_level's
\* loop counted one by one.
Rank(c) ==
    CASE c.pc = "with_gil"    -> 0
      [] c.pc = "get_logger"  -> 1
      [] c.pc = "is_enabled"  -> 2
      [] c.pc = "make_record" -> 3
      [] c.pc = "handle"      -> 4
      [] c.pc = "probe"       -> 4 + c.probe
      [] c.pc = "store_load"  -> 5 + Len(ProbeOrder)
      [] c.pc = "store_cas"   -> 6 + Len(ProbeOrder)
      [] c.pc = "idle"        -> 7 + Len(ProbeOrder)

\* C22: the step after the root load of store_to_cache is its only
\* compare-and-swap, and log() returns in that step: when the root is no
\* longer the loaded one the root stays as it is and the call ends as one
\* that stored, with no error; a record the host wanted was dispatched
\* before; every step of a thread that holds the lock takes its call
\* further in the order of the code; and a call that has the lock returns,
\* whatever reset() and the other threads do.
C22_SingleCasAttempt ==
    /\ [][\A t \in Threads :
            /\ (call[t].pc = "store_cas" /\ call'[t] # call[t]) =>
                   /\ call'[t].pc = "idle"
                   /\ gil' = NoThread
                   /\ last'.kind = "log" /\ last'.t = t
                   /\ last'.o.outcome = "done"
                   /\ last'.o.answer = "yes" => last'.o.dispatches = 1
                   /\ IF root.id = Unwrap(call[t].orig).id
                      THEN last'.o.cas = "won"
                      ELSE last'.o.cas = "lost" /\ root' = root
            /\ (gil = t /\ call'[t] # call[t]) =>
                   Rank(call'[t]) > Rank(call[t])
            /\ (gil = t /\ call'[t] = call[t]) => gil' = t]_vars
    /\ \A t \in Threads : (gil = t) ~> (call[t].pc = "idle")

\* A log call for "x::a" whose record was dispatched has lost its
\* compare-and-swap to a reset() and returned: the root is the empty tree
\* of the reset, and the call has made one attempt.
C22_Witness ==
    /\ last.kind = "log"
    /\ last.o.target = Str_xa
    /\ last.o.outcome = "done"
    /\ last.o.cas = "lost"
    /\ last.o.staleLoad
    /\ last.o.dispatches = 1
    /\ root.node = EmptyNode
    /\ call[last.t].pc = "idle"

====
